---- MODULE Spec2Model ----
(***************************************************************************)
(* A model of the eml package: the raw header/body tokenizer (ParseRaw),   *)
(* the header resolver and message assembler (Parse, handleMessage) and    *)
(* the recursive MIME body walker (parseBody).                             *)
(*                                                                         *)
(* Two machines share the module.  SpecRaw runs ParseRaw one loop          *)
(* iteration per step over a byte buffer.  SpecMsg runs Parse from the     *)
(* RawMessage that ParseRaw hands over: one step per raw header, one   *)
(* for the post-pass and the body walk, one per part, one for the final    *)
(* assignments, one for Parse's return.                                    *)
(***************************************************************************)
EXTENDS Integers, Sequences, FiniteSets, TLC

VARIABLES
    \* ---- ParseRaw (src/raw.go) ----
    s,            \* the input buffer, a sequence of bytes
    lines,        \* ghost: the header lines s was rendered from
    sepGiven,     \* ghost: the separator rendered after the lines (<<>>: none)
    bodyGiven,    \* ghost: the bytes rendered after the separator
    i,            \* the loop index (0-based, as in the code)
    state,        \* READY | HKEY | HVWS | HVAL
    kstart, kend, vstart,
    done,
    RawHeaders,   \* m.RawHeaders
    Body,         \* m.Body
    e,            \* ParseRaw's error result
    rpc,          \* "scan" | "done" | "idle"
    \* ---- Parse / handleMessage (src/header.go) ----
    r,            \* the RawMessage handed to handleMessage
    ignoreErrors,
    msg,          \* the Message under construction
    err,          \* the fatal-error result
    bodyParsingErrors,
    parts,        \* the Parts parseBody returned
    hi,           \* index of the next raw header
    pi,           \* index of the next part
    pc            \* "headers" | "parts" | "return" | "returned" | "panic" | "idle"

rawvars == <<s, lines, sepGiven, bodyGiven, i, state, kstart, kend, vstart,
             done, RawHeaders, Body, e, rpc>>
msgvars == <<r, ignoreErrors, msg, err, bodyParsingErrors, parts, hi, pi, pc>>
vars == <<rawvars, msgvars>>

(***************************************************************************)
(* Bytes.                                                                  *)
(***************************************************************************)
CR == 13
LF == 10
SP == 32
TAB == 9
COLON == 58

CRLF == <<CR, LF>>

isWSP(b) == b = SP \/ b = TAB

\* s[a:b] of Go, on a 1-based sequence
Slice(q, a, b) == SubSeq(q, a + 1, b)

\* bytes.Replace(q, old, nil, -1) for a two-byte old: every non-overlapping
\* occurrence, scanning from the left, is removed
RECURSIVE RemoveAll(_, _)
RemoveAll(q, old) ==
    IF Len(q) < Len(old) THEN q
    ELSE IF SubSeq(q, 1, Len(old)) = old
         THEN RemoveAll(SubSeq(q, Len(old) + 1, Len(q)), old)
         ELSE <<q[1]>> \o RemoveAll(Tail(q), old)

SeqsUpTo(S, n) == UNION {[1..k -> S] : k \in 0..n}

(***************************************************************************)
(* The inputs of ParseRaw: header lines key ":" ws value linebreak, the    *)
(* value one fragment or two fragments joined by a fold (a line break      *)
(* followed by a space or tab), then a separator and a body.               *)
(***************************************************************************)
MaxLines == 2

KeyBytes == {<<83, 107>>}                   \* "Sk"
LeadWS == {<<>>, <<SP>>}
FirstFrags == {<<>>, <<72>>}                \* "", "H"
ContFrags == {<<>>, <<SP, 87>>, <<TAB, 87>>}  \* none, " W", "\tW"
Breaks == {CRLF, <<LF>>}
Seps == {CRLF, <<LF>>, <<>>}
Bodies == {<<>>, <<98>>}                    \* "", "b"

HeaderLines ==
    {ln \in [key : KeyBytes, ws : LeadWS, frag : FirstFrags, cont : ContFrags,
             fold : Breaks, nl : Breaks] :
        \* the fold's line break only exists when there is a continuation
        ln.cont = <<>> => ln.fold = CRLF}

Folded(ln) == ln.cont # <<>>

\* the bytes of one header line
RenderLine(ln) ==
    ln.key \o <<COLON>> \o ln.ws \o ln.frag
      \o (IF Folded(ln) THEN ln.fold \o ln.cont ELSE <<>>) \o ln.nl

RECURSIVE RenderLines(_)
RenderLines(lns) ==
    IF lns = <<>> THEN <<>> ELSE RenderLine(Head(lns)) \o RenderLines(Tail(lns))

\* the logical value of a line: its fragments with the line break removed
LogicalValue(ln) == ln.frag \o ln.cont

(***************************************************************************)
(* ParseRaw, src/raw.go:21-92, one loop iteration per step.                *)
(***************************************************************************)
READY == "READY"
HKEY == "HKEY"
HVWS == "HVWS"
HVAL == "HVAL"

At(k) == s[k + 1]

InitRawVars ==
    /\ lines \in SeqsUpTo(HeaderLines, MaxLines)
    /\ sepGiven \in Seps
    /\ bodyGiven \in Bodies
    /\ s = RenderLines(lines) \o sepGiven \o bodyGiven
    /\ i = 0
    /\ state = READY
    /\ kstart = 0 /\ kend = 0 /\ vstart = 0
    /\ done = FALSE
    /\ RawHeaders = <<>>
    /\ Body = <<>>
    /\ e = "nil"
    /\ rpc = "scan"

IdleRawVars ==
    /\ lines = <<>> /\ sepGiven = <<>> /\ bodyGiven = <<>> /\ s = <<>>
    /\ i = 0 /\ state = READY /\ kstart = 0 /\ kend = 0 /\ vstart = 0
    /\ done = FALSE /\ RawHeaders = <<>> /\ Body = <<>> /\ e = "nil"
    /\ rpc = "idle"

InLoop == rpc = "scan" /\ i < Len(s)

\* case READY, the separator: CR LF or a bare LF ends the headers
RawSeparator ==
    /\ InLoop /\ state = READY
    /\ \/ /\ At(i) = CR /\ i < Len(s) - 1 /\ At(i + 1) = LF
          /\ Body' = Slice(s, i + 2, Len(s))
       \/ /\ ~(At(i) = CR /\ i < Len(s) - 1 /\ At(i + 1) = LF)
          /\ At(i) = LF
          /\ Body' = Slice(s, i + 1, Len(s))
    /\ done' = TRUE
    /\ e' = "nil"
    /\ rpc' = "done"
    /\ UNCHANGED <<s, lines, sepGiven, bodyGiven, i, state, kstart, kend,
                   vstart, RawHeaders>>
    /\ UNCHANGED msgvars

\* case READY, otherwise: this byte is the first of a header key
RawKeyStart ==
    /\ InLoop /\ state = READY
    /\ ~(At(i) = CR /\ i < Len(s) - 1 /\ At(i + 1) = LF)
    /\ At(i) # LF
    /\ kstart' = i
    /\ state' = HKEY
    /\ i' = i + 1
    /\ UNCHANGED <<s, lines, sepGiven, bodyGiven, kend, vstart, done,
                   RawHeaders, Body, e, rpc>>
    /\ UNCHANGED msgvars

\* case HKEY
RawKey ==
    /\ InLoop /\ state = HKEY
    /\ IF At(i) = COLON
       THEN kend' = i /\ state' = HVWS
       ELSE UNCHANGED <<kend, state>>
    /\ i' = i + 1
    /\ UNCHANGED <<s, lines, sepGiven, bodyGiven, kstart, vstart, done,
                   RawHeaders, Body, e, rpc>>
    /\ UNCHANGED msgvars

\* case HVWS: the first byte that is no space or tab starts the value, and
\* the iteration ends there: that byte is not looked at as a value byte
RawLeadingWS ==
    /\ InLoop /\ state = HVWS
    /\ IF ~isWSP(At(i))
       THEN vstart' = i /\ state' = HVAL
       ELSE UNCHANGED <<vstart, state>>
    /\ i' = i + 1
    /\ UNCHANGED <<s, lines, sepGiven, bodyGiven, kstart, kend, done,
                   RawHeaders, Body, e, rpc>>
    /\ UNCHANGED msgvars

\* the value ParseRaw emits for the bytes vstart..at
EmittedValue(at) == RemoveAll(Slice(s, vstart, at), CRLF)

EmitHeader(at) == Append(RawHeaders, [Key |-> Slice(s, kstart, kend),
                                      Value |-> EmittedValue(at)])

\* case HVAL
RawValue ==
    /\ InLoop /\ state = HVAL
    /\ IF At(i) = CR /\ i < Len(s) - 2 /\ At(i + 1) = LF /\ ~isWSP(At(i + 2))
       THEN /\ RawHeaders' = EmitHeader(i)
            /\ state' = READY
            /\ i' = i + 2
       ELSE IF At(i) = LF /\ i < Len(s) - 1 /\ ~isWSP(At(i + 1))
       THEN /\ RawHeaders' = EmitHeader(i)
            /\ state' = READY
            /\ i' = i + 1
       ELSE /\ UNCHANGED <<RawHeaders, state>>
            /\ i' = i + 1
    /\ UNCHANGED <<s, lines, sepGiven, bodyGiven, kstart, kend, vstart, done,
                   Body, e, rpc>>
    /\ UNCHANGED msgvars

\* the loop ran off the end of the buffer: Done: with done = false
RawEOF ==
    /\ rpc = "scan" /\ i >= Len(s)
    /\ e' = (IF ~done THEN "unexpected EOF" ELSE "nil")
    /\ rpc' = "done"
    /\ UNCHANGED <<s, lines, sepGiven, bodyGiven, i, state, kstart, kend,
                   vstart, done, RawHeaders, Body>>
    /\ UNCHANGED msgvars

NextRaw ==
    \/ RawSeparator
    \/ RawKeyStart
    \/ RawKey
    \/ RawLeadingWS
    \/ RawValue
    \/ RawEOF

(***************************************************************************)
(* Values of the message machine.                                          *)
(*                                                                         *)
(* A byte string that may hold MIME parts is a record                      *)
(*   [bytes, parts, end]:                                                  *)
(* bytes are its bytes when it holds no boundary delimiter line; parts and *)
(* end are what multipart.Reader.NextPart yields on it: the parts, then    *)
(* io.EOF ("EOF", the closing delimiter was read) or another error ("ERR": *)
(* no delimiter at all, or the input ends before the closing delimiter).   *)
(***************************************************************************)
Nil == "nil"

Bytes(b) == [bytes |-> b, parts |-> <<>>, end |-> "ERR"]
Multi(ps, en) == [bytes |-> <<>>, parts |-> ps, end |-> en]
EmptyBody == Bytes(<<>>)

\* the body holds boundary delimiter lines
Delimited(body) == body.parts # <<>> \/ body.end = "EOF"

\* A Content-Type value: type "/" subtype, then parameters name=value, then
\* possibly text that is no parameter (junk).  The empty string is EmptyCT.
CT(major, minor, params, junk) ==
    [major |-> major, minor |-> minor, params |-> params, junk |-> junk]
EmptyCT == CT("", "", <<>>, FALSE)

HasParam(ps, name) == \E k \in 1..Len(ps) : ps[k][1] = name
FirstParam(ps, name) == CHOOSE k \in 1..Len(ps) :
                          /\ ps[k][1] = name
                          /\ \A j \in 1..(k - 1) : ps[j][1] # name
\* ps[name] of a Go map: the zero value "" when the key is absent
Param(ps, name) == IF HasParam(ps, name) THEN ps[FirstParam(ps, name)][2] ELSE ""

\* mime.ParseMediaType: fails on the empty string, on text that is no
\* parameter and on a parameter given twice; returns the bare type and the
\* parameter map
ParseMediaType(ct) ==
    IF \/ ct.major = ""
       \/ ct.junk
       \/ \E j, k \in 1..Len(ct.params) : j # k /\ ct.params[j][1] = ct.params[k][1]
    THEN [err |-> "mime: invalid media type", mt |-> EmptyCT, ps |-> <<>>]
    ELSE [err |-> Nil, mt |-> CT(ct.major, ct.minor, <<>>, FALSE), ps |-> ct.params]

\* strings.Contains(t, "text/plain") and "text/html" on a Part's Type
TypeContains(t, major, minor) == t.major = major /\ t.minor = minor

\* regexp "(?is)charset=(.*)" on the raw Content-Type: the capture runs to the
\* end of the string, so it is the charset label only when nothing follows it
TailLabel == "label and the text after it"
RegexCharset(ct) ==
    IF ~HasParam(ct.params, "charset") THEN "UTF-8"
    ELSE IF FirstParam(ct.params, "charset") = Len(ct.params) /\ ~ct.junk
         THEN Param(ct.params, "charset")
         ELSE TailLabel

\* strings.ToUpper on a charset label
ToUpper(cs) == IF cs = "utf-8" THEN "UTF-8" ELSE cs

\* ISO-8859-1 to UTF-8, byte by byte
RECURSIVE Latin1(_)
Latin1(b) ==
    IF b = <<>> THEN <<>>
    ELSE (IF b[1] < 128 THEN <<b[1]>>
          ELSE <<192 + (b[1] \div 64), 128 + (b[1] % 64)>>) \o Latin1(Tail(b))

RECURSIVE Latin1Body(_)
Latin1Body(body) ==
    [bytes |-> Latin1(body.bytes),
     parts |-> [k \in 1..Len(body.parts) |->
                  [body.parts[k] EXCEPT !.body = Latin1Body(body.parts[k].body)]],
     end |-> body.end]

SupportedCharsets == {"iso-8859-1"}

\* UTF8, src/decoder.go:12-24
UTF8(cs, data) ==
    IF ToUpper(cs) = "UTF-8" THEN [data |-> data, err |-> Nil]
    ELSE IF cs \in SupportedCharsets
         THEN [data |-> Latin1Body(data), err |-> Nil]
         ELSE [data |-> EmptyBody, err |-> "charset: unsupported"]

\* Header text: plain text, or one RFC2047 encoded word that encodes text
Plain(text) == [encoded |-> FALSE, text |-> text]
EncodedWord(text) == [encoded |-> TRUE, text |-> text]

\* Decode, src/decoder.go:26-34: the decoded header, never an error
Decode(x) == [p |-> Plain(x.text), err |-> Nil]

(***************************************************************************)
(* base64.StdEncoding and quotedprintable.Reader on bytes.                 *)
(***************************************************************************)
B64Char(v) ==
    IF v < 26 THEN 65 + v
    ELSE IF v < 52 THEN 71 + v
    ELSE IF v < 62 THEN v - 4
    ELSE IF v = 62 THEN 43 ELSE 47

B64Val(c) ==
    IF c \in 65..90 THEN c - 65
    ELSE IF c \in 97..122 THEN c - 71
    ELSE IF c \in 48..57 THEN c + 4
    ELSE IF c = 43 THEN 62
    ELSE IF c = 47 THEN 63 ELSE -1

PAD == 61

RECURSIVE B64Encode(_)
B64Encode(b) ==
    IF b = <<>> THEN <<>>
    ELSE IF Len(b) = 1
    THEN <<B64Char(b[1] \div 4), B64Char((b[1] % 4) * 16), PAD, PAD>>
    ELSE IF Len(b) = 2
    THEN <<B64Char(b[1] \div 4), B64Char((b[1] % 4) * 16 + b[2] \div 16),
           B64Char((b[2] % 16) * 4), PAD>>
    ELSE <<B64Char(b[1] \div 4), B64Char((b[1] % 4) * 16 + b[2] \div 16),
           B64Char((b[2] % 16) * 4 + b[3] \div 64), B64Char(b[3] % 64)>>
         \o B64Encode(SubSeq(b, 4, Len(b)))

\* DecodeString: CR and LF are skipped; on an error the bytes decoded before
\* it are returned with the error
RECURSIVE B64DecodeQuanta(_)
B64DecodeQuanta(c) ==
    IF c = <<>> THEN [bytes |-> <<>>, err |-> Nil]
    ELSE IF Len(c) < 4 \/ B64Val(c[1]) < 0 \/ B64Val(c[2]) < 0
    THEN [bytes |-> <<>>, err |-> "illegal base64 data"]
    ELSE LET v1 == B64Val(c[1])
             v2 == B64Val(c[2])
             b1 == v1 * 4 + v2 \div 16
         IN IF c[3] = PAD
            THEN IF c[4] = PAD /\ Len(c) = 4
                 THEN [bytes |-> <<b1>>, err |-> Nil]
                 ELSE [bytes |-> <<>>, err |-> "illegal base64 data"]
            ELSE IF B64Val(c[3]) < 0
            THEN [bytes |-> <<>>, err |-> "illegal base64 data"]
            ELSE LET v3 == B64Val(c[3])
                     b2 == (v2 % 16) * 16 + v3 \div 4
                 IN IF c[4] = PAD
                    THEN IF Len(c) = 4
                         THEN [bytes |-> <<b1, b2>>, err |-> Nil]
                         ELSE [bytes |-> <<>>, err |-> "illegal base64 data"]
                    ELSE IF B64Val(c[4]) < 0
                    THEN [bytes |-> <<>>, err |-> "illegal base64 data"]
                    ELSE LET rest == B64DecodeQuanta(SubSeq(c, 5, Len(c)))
                         IN [bytes |-> <<b1, b2, (v3 % 4) * 64 + B64Val(c[4])>>
                                         \o rest.bytes,
                             err |-> rest.err]

NotLineBreak(c) == c # CR /\ c # LF

\* a body with delimiter lines starts with "--": no base64 data
B64DecodeString(data) ==
    IF Delimited(data) THEN [data |-> EmptyBody, err |-> "illegal base64 data"]
    ELSE LET d == B64DecodeQuanta(SelectSeq(data.bytes, NotLineBreak))
         IN [data |-> Bytes(d.bytes), err |-> d.err]

HexVal(c) ==
    IF c \in 48..57 THEN c - 48 ELSE IF c \in 65..70 THEN c - 55 ELSE -1

\* quotedprintable: "=XY" with two hex digits is one byte; the reader stops at
\* a malformed escape, keeping what it decoded
RECURSIVE QPBytes(_)
QPBytes(b) ==
    IF b = <<>> THEN <<>>
    ELSE IF b[1] # PAD THEN <<b[1]>> \o QPBytes(Tail(b))
    ELSE IF Len(b) >= 3 /\ HexVal(b[2]) >= 0 /\ HexVal(b[3]) >= 0
         THEN <<HexVal(b[2]) * 16 + HexVal(b[3])>> \o QPBytes(SubSeq(b, 4, Len(b)))
         ELSE <<>>

QPDecode(data) == IF Delimited(data) THEN data ELSE Bytes(QPBytes(data.bytes))

(***************************************************************************)
(* MIME parts as the multipart reader yields them.                         *)
(***************************************************************************)
\* textproto.MIMEHeader of a part: each key holds the sequence of its values
Hdr(ct, cd, cte) == [ct |-> ct, cd |-> cd, cte |-> cte]
NoHeaders == Hdr(<<>>, <<>>, <<>>)

\* a Content-Disposition value: its disposition word and what the pattern
\* name="(.*?)" finds in it (nothing, or the quoted name)
CD(disp, quoted) == [disp |-> disp, quoted |-> quoted]

Node(h, body) == [header |-> h, body |-> body]

\* multipart.Reader.NextPart: a part whose Content-Transfer-Encoding is
\* quoted-printable is handed over decoded, with that header removed
NextPart(n) ==
    IF n.header.cte # <<>> /\ n.header.cte[1] = "quoted-printable"
    THEN Node([n.header EXCEPT !.cte = <<>>], QPDecode(n.body))
    ELSE n

\* type Part, src/decoder.go:52-57
Part(type, charset, data, headers) ==
    [Type |-> type, Charset |-> charset, Data |-> data, Headers |-> headers]

Ret(ps, er, pn) == [parts |-> ps, err |-> er, panic |-> pn]

\* the Part appended when the recursion on a part fails, src/decoder.go:104-110
LeafPart(p) ==
    Part(p.header.ct[1], RegexCharset(p.header.ct[1]), p.body, p.header)

\* the Part of a body without boundary, src/decoder.go:75-91: mail.ReadMessage
\* reads "\r\n" + body, whose header section is empty
SinglePart(mt, ps, body) == Part(mt, Param(ps, "charset"), body, NoHeaders)

\* parseBody, src/decoder.go:63-118.  walkParts is its loop over NextPart:
\* nodes are the parts the reader still holds, en is how the reader ends.
\* p.Header["Content-Type"][0] on a part without that header is an index out
\* of range: a panic, which no caller recovers.
RECURSIVE parseBody(_, _)
RECURSIVE walkParts(_, _, _)
parseBody(ct, body) ==
    LET m == ParseMediaType(ct)
    IN IF m.err # Nil THEN Ret(<<>>, m.err, FALSE)
       ELSE IF ~HasParam(m.ps, "boundary")
       THEN IF m.mt.major = "multipart"
            THEN Ret(<<>>, "multipart specified without boundary", FALSE)
            ELSE Ret(<<SinglePart(m.mt, m.ps, body)>>, Nil, FALSE)
       ELSE walkParts(body.parts, body.end, <<>>)

walkParts(nodes, en, acc) ==
    IF nodes = <<>>
    THEN Ret(acc, IF en = "EOF" THEN Nil ELSE "multipart: NextPart", FALSE)
    ELSE LET p == NextPart(Head(nodes))
         IN IF p.header.ct = <<>> THEN Ret(acc, Nil, TRUE)
            ELSE LET sub == parseBody(p.header.ct[1], p.body)
                 IN IF sub.panic THEN Ret(acc, Nil, TRUE)
                    ELSE IF sub.err = Nil
                    THEN walkParts(Tail(nodes), en, acc \o sub.parts)
                    ELSE walkParts(Tail(nodes), en, Append(acc, LeafPart(p)))

(***************************************************************************)
(* Address headers.  A header value is the sequence of its comma-separated *)
(* addresses; BadAddr is one the address grammar rejects.                  *)
(***************************************************************************)
BadAddr == "not an address"
AddrError == "address: parse error"

\* parseAddressList, src/header.go:20-42: the addresses before the first one
\* that fails to parse, and that failure
RECURSIVE parseAddressList(_)
parseAddressList(v) ==
    IF v = <<>> THEN [al |-> <<>>, err |-> Nil]
    ELSE IF Head(v) = BadAddr THEN [al |-> <<>>, err |-> AddrError]
    ELSE LET rest == parseAddressList(Tail(v))
         IN [al |-> <<Head(v)>> \o rest.al, err |-> rest.err]

\* ParseAddress: one address, or nil and the failure
ParseAddress(v) ==
    IF v = <<>> \/ Head(v) = BadAddr THEN [a |-> Nil, err |-> AddrError]
    ELSE [a |-> Head(v), err |-> Nil]

\* strings.ToLower on a header key
ToLower(k) ==
    CASE k = "Content-Type" -> "content-type"
      [] k = "From" -> "from"
      [] k = "Sender" -> "sender"
      [] k = "Reply-To" -> "reply-to"
      [] k = "To" -> "to"
      [] k = "Cc" -> "cc"
      [] k = "Bcc" -> "bcc"
      [] k = "Subject" -> "subject"
      [] k = "Comments" -> "comments"
      [] OTHER -> k

AddressKeys == {"from", "sender", "reply-to", "to", "cc", "bcc"}

(***************************************************************************)
(* The messages handed to Parse.                                           *)
(***************************************************************************)
MaxHeaders == 3
MaxParts == 2

RH(k, v) == [Key |-> k, Value |-> v]

TextPlainUTF8 == CT("text", "plain", <<<<"charset", "UTF-8">>>>, FALSE)
TextPlainLatin1 == CT("text", "plain", <<<<"charset", "iso-8859-1">>>>, FALSE)
TextPlainBogus == CT("text", "plain", <<<<"charset", "x-bogus">>>>, FALSE)
TextPlainJunk == CT("text", "plain", <<<<"charset", "iso-8859-1">>>>, TRUE)
TextHtmlUTF8 == CT("text", "html", <<<<"charset", "utf-8">>>>, FALSE)
AppPdf == CT("application", "pdf", <<<<"name", "report.pdf">>>>, FALSE)
AppPdfJunk == CT("application", "pdf", <<>>, TRUE)
MixedB == CT("multipart", "mixed", <<<<"boundary", "b">>>>, FALSE)
MixedNoBoundary == CT("multipart", "mixed", <<>>, FALSE)
AltB == CT("multipart", "alternative", <<<<"boundary", "b">>>>, FALSE)
AltNoBoundary == CT("multipart", "alternative", <<>>, FALSE)

Hi == <<104, 105>>                  \* "hi"
EAcute == <<99, 97, 102, 233>>      \* "caf\xe9" in ISO-8859-1
Para == <<60, 112, 62>>             \* "<p>"
Payloads == {Hi}
HiB64 == B64Encode(Hi)              \* "aGk="
NotB64 == <<33, 33, 33, 33>>        \* "!!!!"
HiQP == <<61, 54, 56, 105>>         \* "=68i"

AttachPdf == CD("attachment", <<Plain("report.pdf")>>)
AttachWord == CD("attachment", <<EncodedWord("r.pdf")>>)
AttachNoName == CD("attachment", <<>>)
Inline == CD("inline", <<Plain("report.pdf")>>)

PlainNode == Node(Hdr(<<TextPlainUTF8>>, <<>>, <<>>), Bytes(Hi))
HtmlNode == Node(Hdr(<<TextHtmlUTF8>>, <<>>, <<>>), Bytes(Para))

\* the parts a multipart body holds
LeafNodes ==
    { PlainNode,
      Node(Hdr(<<TextPlainLatin1>>, <<>>, <<>>), Bytes(EAcute)),
      Node(Hdr(<<TextPlainBogus>>, <<>>, <<>>), Bytes(EAcute)),
      Node(Hdr(<<TextPlainJunk>>, <<>>, <<>>), Bytes(EAcute)),
      HtmlNode,
      Node(Hdr(<<AppPdf>>, <<AttachPdf>>, <<"base64">>), Bytes(HiB64)),
      Node(Hdr(<<AppPdfJunk>>, <<AttachPdf>>, <<"base64">>), Bytes(HiB64)),
      Node(Hdr(<<AppPdfJunk>>, <<AttachWord>>, <<"base64">>), Bytes(NotB64)),
      Node(Hdr(<<AppPdfJunk>>, <<AttachPdf>>, <<"quoted-printable">>), Bytes(HiQP)),
      Node(Hdr(<<AppPdfJunk>>, <<AttachNoName>>, <<>>), Bytes(Hi)),
      Node(Hdr(<<AppPdfJunk>>, <<Inline>>, <<>>), Bytes(Hi)),
      Node(Hdr(<<>>, <<>>, <<>>), Bytes(Hi)) }

NestedBodies ==
    { Multi(<<PlainNode, HtmlNode>>, "EOF"),
      Multi(<<PlainNode>>, "ERR"),
      Multi(<<>>, "EOF") }

NestedNodes ==
    {Node(Hdr(<<AltB>>, <<>>, <<>>), b) : b \in NestedBodies}
      \cup {Node(Hdr(<<AltNoBoundary>>, <<>>, <<>>), Multi(<<PlainNode, HtmlNode>>, "EOF"))}

PartNodes == LeafNodes \cup NestedNodes

MultiBodies == {Multi(ps, en) : ps \in SeqsUpTo(PartNodes, MaxParts), en \in {"EOF", "ERR"}}
PlainBodies == {Bytes(Hi), Bytes(EAcute)}

TopContentTypes ==
    {TextPlainUTF8, TextPlainLatin1, TextPlainBogus, TextPlainJunk, AppPdf,
     MixedB, MixedNoBoundary, EmptyCT}

\* bodies in depth, under a single Content-Type header
BodyMessages ==
    {[RawHeaders |-> <<RH("Content-Type", ct)>>, Body |-> b] :
        ct \in TopContentTypes, b \in MultiBodies \cup PlainBodies}

HeaderChoices ==
    {RH("Content-Type", ct) : ct \in {TextPlainUTF8, MixedB, MixedNoBoundary}}
      \cup {RH("From", v) : v \in {<<"a@x.com", "b@x.com">>, <<"a@x.com">>,
                                   <<"a@x.com", BadAddr>>, <<BadAddr>>}}
      \cup {RH("Sender", v) : v \in {<<"c@x.com">>, <<BadAddr>>}}
      \cup {RH("To", v) : v \in {<<"b@x.com">>, <<BadAddr>>}}
      \cup {RH("Subject", EncodedWord("s")), RH("Comments", Plain("c"))}

\* headers in depth, over a few bodies
HeaderMessages ==
    {[RawHeaders |-> hs, Body |-> b] :
        hs \in SeqsUpTo(HeaderChoices, MaxHeaders),
        b \in {Bytes(Hi), Multi(<<PlainNode>>, "EOF"), Multi(<<PlainNode>>, "ERR")}}

Messages == BodyMessages \cup HeaderMessages

(***************************************************************************)
(* Parse and handleMessage, src/header.go:91-252.                          *)
(***************************************************************************)
HeaderKeys == {"Content-Type", "From", "Sender", "Reply-To", "To", "Cc", "Bcc",
               "Subject", "Comments"}

\* the zero Message, with ParsedHeaders made
NewMessage ==
    [ParsedHeaders |-> [k \in HeaderKeys |-> <<>>],
     ContentType |-> EmptyCT, Sender |-> Nil, From |-> <<>>, ReplyTo |-> <<>>,
     To |-> <<>>, Cc |-> <<>>, Bcc |-> <<>>, Subject |-> Plain(""), Comments |-> <<>>,
     Text |-> EmptyBody, Html |-> EmptyBody, Attachments |-> <<>>,
     Parts |-> <<>>, Body |-> EmptyBody]

InitMsgVars ==
    /\ r \in Messages
    /\ ignoreErrors \in BOOLEAN
    /\ msg = NewMessage
    /\ err = Nil
    /\ bodyParsingErrors = <<>>
    /\ parts = <<>>
    /\ hi = 1
    /\ pi = 1
    /\ pc = "headers"

IdleMsgVars ==
    /\ r = <<>> /\ ignoreErrors = FALSE /\ msg = <<>> /\ err = Nil
    /\ bodyParsingErrors = <<>> /\ parts = <<>> /\ hi = 0 /\ pi = 0
    /\ pc = "idle"

\* the key switch of the header loop, src/header.go:124-166: the message and
\* the error after header rh, given the error before it
Dispatch(m, er, rh) ==
    LET k == ToLower(rh.Key)
        al == parseAddressList(rh.Value)
    IN CASE k = "content-type" -> [m |-> [m EXCEPT !.ContentType = rh.Value], err |-> er]
         [] k = "from" -> [m |-> [m EXCEPT !.From = al.al], err |-> al.err]
         [] k = "sender" -> [m |-> [m EXCEPT !.Sender = ParseAddress(rh.Value).a],
                             err |-> ParseAddress(rh.Value).err]
         [] k = "reply-to" -> [m |-> [m EXCEPT !.ReplyTo = al.al], err |-> al.err]
         [] k = "to" -> [m |-> [m EXCEPT !.To = al.al], err |-> al.err]
         [] k = "cc" -> [m |-> [m EXCEPT !.Cc = al.al], err |-> al.err]
         [] k = "bcc" -> [m |-> [m EXCEPT !.Bcc = al.al], err |-> al.err]
         [] k = "subject" -> [m |-> [m EXCEPT !.Subject = Decode(rh.Value).p],
                              err |-> Decode(rh.Value).err]
         [] k = "comments" -> [m |-> [m EXCEPT !.Comments = Append(@, rh.Value)],
                               err |-> er]
         [] OTHER -> [m |-> m, err |-> er]

\* one iteration of the header loop, src/header.go:114-171
HeaderStep ==
    /\ pc = "headers" /\ hi <= Len(r.RawHeaders)
    /\ LET rh == r.RawHeaders[hi]
           m1 == [msg EXCEPT !.ParsedHeaders[rh.Key] = Append(@, rh.Value)]
           d == Dispatch(m1, err, rh)
       IN /\ msg' = d.m
          /\ err' = d.err
          /\ IF d.err # Nil /\ ~ignoreErrors
             THEN pc' = "return" /\ hi' = hi
             ELSE pc' = pc /\ hi' = hi + 1
    /\ UNCHANGED <<bodyParsingErrors, parts, pi, r, ignoreErrors>>
    /\ UNCHANGED rawvars

\* the post-pass, src/header.go:173-176
SenderFallbackOffByOne(m) ==
    IF m.Sender = Nil /\ Len(m.From) > 1 THEN [m EXCEPT !.Sender = m.From[1]] ELSE m

SenderFallback(m) ==
    IF m.Sender = Nil /\ Len(m.From) > 0 THEN [m EXCEPT !.Sender = m.From[1]] ELSE m

\* after the header loop: the post-pass and the body walk, src/header.go:173-187
\* and 247-249
WalkBody ==
    /\ pc = "headers" /\ hi > Len(r.RawHeaders)
    /\ LET m == SenderFallback(msg)
           w == parseBody(m.ContentType, r.Body)
       IN IF m.ContentType = EmptyCT
          THEN /\ msg' = [m EXCEPT !.Text = r.Body]
               /\ pc' = "return"
               /\ UNCHANGED <<bodyParsingErrors, parts>>
          ELSE IF w.panic
          THEN /\ msg' = m
               /\ pc' = "panic"
               /\ UNCHANGED <<bodyParsingErrors, parts>>
          ELSE IF w.err # Nil
          THEN /\ msg' = [m EXCEPT !.Text = r.Body]
               /\ bodyParsingErrors' = Append(bodyParsingErrors, w.err)
               /\ pc' = "return"
               /\ UNCHANGED parts
          ELSE /\ msg' = m
               /\ parts' = w.parts
               /\ pc' = "parts"
               /\ UNCHANGED bodyParsingErrors
    /\ UNCHANGED <<err, hi, pi, r, ignoreErrors>>
    /\ UNCHANGED rawvars

\* the attachment of a part that is neither text/plain nor text/html,
\* src/header.go:210-241: the attachments and errors after the part
AttachmentCase(m, errs, part) ==
    IF part.Headers.cd = <<>> \/ part.Headers.cd[1].disp # "attachment"
    THEN [m |-> m, errs |-> errs]
    ELSE IF part.Headers.cd[1].quoted = <<>>
    THEN [m |-> m,
          errs |-> Append(errs, "failed get filename from header Content-Disposition")]
    ELSE LET filename == Decode(part.Headers.cd[1].quoted[1]).p
             enc == IF part.Headers.cte = <<>> THEN "" ELSE part.Headers.cte[1]
             dec == B64DecodeString(part.Data)
             data == CASE enc = "base64" -> dec.data
                       [] enc = "quoted-printable" -> QPDecode(part.Data)
                       [] OTHER -> part.Data
             errs1 == IF enc = "base64" /\ dec.err # Nil
                      THEN Append(errs, "failed decode base64")
                      ELSE errs
         IN [m |-> [m EXCEPT !.Attachments =
                        Append(@, [Filename |-> filename, Data |-> data])],
             errs |-> errs1]

\* one iteration of the part loop, src/header.go:190-242
PartStep ==
    /\ pc = "parts" /\ pi <= Len(parts)
    /\ LET part == parts[pi]
           u == UTF8(part.Charset, part.Data)
           text == IF u.err # Nil THEN part.Data ELSE u.data
           a == AttachmentCase(msg, bodyParsingErrors, part)
       IN IF TypeContains(part.Type, "text", "plain")
          THEN msg' = [msg EXCEPT !.Text = text] /\ UNCHANGED bodyParsingErrors
          ELSE IF TypeContains(part.Type, "text", "html")
          THEN msg' = [msg EXCEPT !.Html = text] /\ UNCHANGED bodyParsingErrors
          ELSE msg' = a.m /\ bodyParsingErrors' = a.errs
    /\ pi' = pi + 1
    /\ UNCHANGED <<err, parts, hi, pc, r, ignoreErrors>>
    /\ UNCHANGED rawvars

\* after the part loop, src/header.go:244-246; parts[0] of an empty slice is
\* an index out of range
AssignFirst ==
    /\ pc = "parts" /\ pi > Len(parts)
    /\ IF parts = <<>>
       THEN /\ msg' = [msg EXCEPT !.Parts = parts]
            /\ pc' = "panic"
       ELSE /\ msg' = [msg EXCEPT !.Parts = parts,
                                  !.ContentType = parts[1].Type,
                                  !.Text = parts[1].Data]
            /\ pc' = "return"
    /\ UNCHANGED <<err, bodyParsingErrors, parts, hi, pi, r, ignoreErrors>>
    /\ UNCHANGED rawvars

\* Parse after handleMessage returned, src/header.go:102-106 (msg.Headers is
\* cut from the raw buffer, which this machine does not hold)
ParseReturn ==
    /\ pc = "return"
    /\ msg' = [msg EXCEPT !.Body = r.Body]
    /\ pc' = "returned"
    /\ UNCHANGED <<err, bodyParsingErrors, parts, hi, pi, r, ignoreErrors>>
    /\ UNCHANGED rawvars

NextMsg ==
    \/ HeaderStep
    \/ WalkBody
    \/ PartStep
    \/ AssignFirst
    \/ ParseReturn

(***************************************************************************)
(* What the claims speak of, computed from the message given to Parse.     *)
(***************************************************************************)
Range(q) == {q[k] : k \in 1..Len(q)}

MaxOf(S) == CHOOSE x \in S : \A y \in S : y <= x

HeadersWithKey(hs, key) == {k \in 1..Len(hs) : ToLower(hs[k].Key) = key}

\* the Content-Type the headers declare: the last such header's value
DeclaredContentType(hs) ==
    IF HeadersWithKey(hs, "content-type") = {} THEN EmptyCT
    ELSE hs[MaxOf(HeadersWithKey(hs, "content-type"))].Value

\* the address the last Sender header yields, nil when there is none
DeclaredSender(hs) ==
    IF HeadersWithKey(hs, "sender") = {} THEN Nil
    ELSE ParseAddress(hs[MaxOf(HeadersWithKey(hs, "sender"))].Value).a

\* some address header of hs fails to parse
AddressFailure(hs) ==
    \E k \in 1..Len(hs) :
        /\ ToLower(hs[k].Key) \in AddressKeys
        /\ IF ToLower(hs[k].Key) = "sender"
           THEN ParseAddress(hs[k].Value).err # Nil
           ELSE parseAddressList(hs[k].Value).err # Nil

\* a part that is itself split: a well-formed Content-Type with a boundary
Splits(ct) == ParseMediaType(ct).err = Nil /\ HasParam(ct.params, "boundary")
Nested(n) == n.header.ct # <<>> /\ Splits(n.header.ct[1])

\* every part of the message, at any depth
RECURSIVE NodesIn(_)
NodesIn(body) ==
    UNION {{body.parts[k]} \cup
             (IF Nested(body.parts[k]) THEN NodesIn(body.parts[k].body) ELSE {})
           : k \in 1..Len(body.parts)}

\* the bytes of the leaf parts in document order: depth first, left to right
RECURSIVE DocLeaves(_)
DocLeaves(nodes) ==
    IF nodes = <<>> THEN <<>>
    ELSE (IF Nested(Head(nodes)) THEN DocLeaves(Head(nodes).body.parts)
          ELSE <<NextPart(Head(nodes)).body>>) \o DocLeaves(Tail(nodes))

ExpectedLeaves(ct, body) == IF Splits(ct) THEN DocLeaves(body.parts) ELSE <<body>>

\* Parse ran the whole header loop and returned
Returned == pc = "returned" /\ hi > Len(r.RawHeaders)

\* Parse returned through the part loop: the body walk succeeded
ReturnedParts == Returned /\ parts # <<>>

\* what a text part's data is to become
Transcoded(p) ==
    IF UTF8(p.Charset, p.Data).err = Nil THEN UTF8(p.Charset, p.Data).data ELSE p.Data

PlainParts == {k \in 1..Len(parts) : TypeContains(parts[k].Type, "text", "plain")}

\* a leaf part that is a base64 attachment named F holding the bytes B
IsBase64Attachment(n, F, B) ==
    /\ n.header.ct # <<>>
    /\ ParseMediaType(n.header.ct[1]).err = Nil
    /\ ~HasParam(n.header.ct[1].params, "boundary")
    /\ n.header.ct[1].major \notin {"text", "multipart"}
    /\ n.header.cd = <<CD("attachment", <<Plain(F)>>)>>
    /\ n.header.cte = <<"base64">>
    /\ n.body = Bytes(B64Encode(B))

Filenames == {"report.pdf"}

(***************************************************************************)
(* The claims.                                                             *)
(***************************************************************************)

\* C1: when the body walk succeeds, every non-text leaf part with a
\* well-formed Content-Type, Content-Disposition: attachment; filename="F"
\* and Content-Transfer-Encoding: base64, whose body is the base64 encoding of
\* B, is in Attachments with Filename F and Data B.
C1_AttachmentRoundTrip ==
    ReturnedParts =>
        \A n \in NodesIn(r.Body) : \A F \in Filenames : \A B \in Payloads :
            (Splits(DeclaredContentType(r.RawHeaders)) /\ IsBase64Attachment(n, F, B))
              => \E k \in 1..Len(msg.Attachments) :
                    msg.Attachments[k] = [Filename |-> Plain(F), Data |-> Bytes(B)]

\* C2: when the body walk succeeds and a part's type matches text/plain, Text
\* is that part's data transcoded with its charset (its raw bytes when the
\* transcoding fails), wherever the part stands; without a text/plain part
\* Text is the first Part's raw bytes.
C2_TextIsPlainPart ==
    ReturnedParts =>
        IF PlainParts # {}
        THEN \E k \in PlainParts : msg.Text = Transcoded(parts[k])
        ELSE msg.Text = parts[1].Data

\* C3: when parseBody returns without error no returned Part has a
\* multipart/* type, and the Parts are the leaves in depth-first,
\* left-to-right document order.
C3_FlattenedLeaves ==
    (pc \in {"parts", "return", "returned"} /\ parts # <<>>) =>
        /\ \A k \in 1..Len(parts) : parts[k].Type.major # "multipart"
        /\ [k \in 1..Len(parts) |-> parts[k].Data]
             = ExpectedLeaves(DeclaredContentType(r.RawHeaders), r.Body)

\* C4: the RawHeader ParseRaw emits for a folded header holds no CR or LF
\* byte and is the concatenation of the line's fragments, the fold's line
\* break being CRLF or a bare LF.
C4_FoldingStripped ==
    (rpc = "done" /\ e = "nil") =>
        \A k \in 1..Len(lines) :
            Folded(lines[k]) =>
                /\ k <= Len(RawHeaders)
                /\ \A j \in 1..Len(RawHeaders[k].Value) :
                       RawHeaders[k].Value[j] \notin {CR, LF}
                /\ RawHeaders[k].Value = LogicalValue(lines[k])

\* C5: in ignore-errors mode a failing address header does not stop the
\* header loop or the body, and the failure is still reported once Parse has
\* returned, whatever headers follow it.
C5_IgnoredFailureReported ==
    (pc = "returned" /\ ignoreErrors /\ AddressFailure(r.RawHeaders)) =>
        /\ hi > Len(r.RawHeaders)
        /\ (err # Nil \/ AddrError \in Range(bodyParsingErrors))

\* C6: a text part declaring a charset label the transcoder does not support
\* leaves Parse without a fatal error, Text holding the part's raw bytes, and
\* exactly one body-parsing error recorded.
C6_UnknownCharsetRecorded ==
    (/\ ReturnedParts
     /\ ~AddressFailure(r.RawHeaders)
     /\ Len(parts) = 1
     /\ TypeContains(parts[1].Type, "text", "plain")
     /\ parts[1].Charset \notin {"", TailLabel}
     /\ UTF8(parts[1].Charset, parts[1].Data).err # Nil) =>
        /\ err = Nil
        /\ msg.Text = parts[1].Data
        /\ Len(bodyParsingErrors) = 1

\* C7: with resolved headers and a non-empty Content-Type no body makes Parse
\* abort, and when the body walk fails Parse returns with Text the raw body,
\* the failure in the body-parsing error list and no fatal error.
C7_BodyFailureRecoverable ==
    (/\ pc \in {"returned", "panic"}
     /\ hi > Len(r.RawHeaders)
     /\ ~AddressFailure(r.RawHeaders)
     /\ DeclaredContentType(r.RawHeaders) # EmptyCT) =>
        /\ pc # "panic"
        /\ LET w == parseBody(DeclaredContentType(r.RawHeaders), r.Body)
           IN w.err # Nil =>
                /\ msg.Text = r.Body
                /\ bodyParsingErrors = <<w.err>>
                /\ err = Nil

\* C8: when Parse returns without a fatal header error, no Sender header set
\* a Sender and From is non-empty, Sender is From[0], on every return path
\* after the header loop.
C8_SenderFallback ==
    (/\ pc = "returned"
     /\ (ignoreErrors \/ err = Nil)
     /\ DeclaredSender(r.RawHeaders) = Nil
     /\ msg.From # <<>>) =>
        msg.Sender = msg.From[1]

\* C8's case: Parse returned through the failing body walk, without a Sender
\* header, and Sender is the first From address
C8_Witness ==
    /\ pc = "returned"
    /\ HeadersWithKey(r.RawHeaders, "sender") = {}
    /\ Len(msg.From) = 2
    /\ bodyParsingErrors # <<>>
    /\ msg.Sender = msg.From[1]

\* C9: whenever parseBody returns without error its Parts are non-empty, so
\* the read of the first Part after the part loop is defined.
C9_FirstPartDefined ==
    pc = "parts" => parts # <<>>

\* C10: n header lines key ":" optional spaces/tabs value line break, then a
\* separator and a body: ParseRaw succeeds with exactly n RawHeaders, the i-th
\* holding the i-th key and value (empty for an empty value), and Body the
\* bytes after the separator.
C10_HeaderLines ==
    (/\ rpc = "done"
     /\ sepGiven # <<>>
     /\ \A k \in 1..Len(lines) : ~Folded(lines[k])) =>
        /\ e = "nil"
        /\ Len(RawHeaders) = Len(lines)
        /\ \A k \in 1..Len(lines) :
               /\ RawHeaders[k].Key = lines[k].key
               /\ RawHeaders[k].Value = lines[k].frag
        /\ Body = bodyGiven

InitRaw == InitRawVars /\ IdleMsgVars
InitMsg == IdleRawVars /\ InitMsgVars

SpecRaw == InitRaw /\ [][NextRaw]_vars
SpecMsg == InitMsg /\ [][NextMsg]_vars

====
